---- MODULE Spec2Model ----
(***************************************************************************)
(* Account creation of the MarketPlace users app: the account factories,   *)
(* the factory registry and the result object of apps/users/factories.py,  *)
(* on top of the tables and post_save handlers of apps/users/models.py.    *)
(*                                                                         *)
(* The store is the set of rows of each table.  A transaction writes rows  *)
(* of one new user only, so rolling it back removes the rows of that user. *)
(***************************************************************************)
EXTENDS Integers, Sequences, FiniteSets, TLC

VARIABLES db, factories, call, ret, txn

vars == <<db, factories, call, ret, txn>>

-----------------------------------------------------------------------------
(* Bounds of the model *)

\* rows of users_user the store may hold
MaxUsers == 2

\* errors added to one AccountCreationResult
MaxErrors == 3

\* calls of _setup_base_profiles in a row on one user
MaxBundles == 3

-----------------------------------------------------------------------------
(* Python values *)

\* Python None, as the value of a string-typed key
None == "<None>"
\* no exception
NoExc == ""

Usernames == {"u1", "u2"}
Emails == {"e1", "e2"}
Passwords == {"pw"}

\* UserType (imported from models, factories.py:19); its values are the tags
BUYER == "buyer"
SELLER == "seller"
ADMIN == "admin"
\* tags that are no member of UserType: candidates for register_factory
OtherTags == {"moderator", "BUYER"}
Tags == {BUYER, SELLER, ADMIN} \cup OtherTags

\* the concrete factory classes of factories.py
FactoryClasses == {"BuyerAccountFactory", "SellerAccountFactory", "AdminAccountFactory"}

\* get_user_type of each concrete factory
get_user_type(factory) ==
    CASE factory = "BuyerAccountFactory" -> BUYER
      [] factory = "SellerAccountFactory" -> SELLER
      [] factory = "AdminAccountFactory" -> ADMIN

\* the word each factory puts in its error message
FailureLabel(factory) ==
    CASE factory = "BuyerAccountFactory" -> "Failed to create buyer account"
      [] factory = "SellerAccountFactory" -> "Failed to create seller account"
      [] factory = "AdminAccountFactory" -> "Failed to create admin account"

-----------------------------------------------------------------------------
(* Field bags: user_data, a dict.  keys is the set of keys present, val    *)
(* holds the value of each present key (and a filler for an absent one).   *)

RequiredKeys == {"username", "email", "password"}

BlankVal ==
    [username |-> None, email |-> None, password |-> None,
     is_superuser |-> FALSE, is_staff |-> FALSE,
     marketing_emails |-> FALSE, newsletter_subscription |-> FALSE,
     push_notifications |-> FALSE, theme |-> None,
     preferred_shipping_method |-> None, business_type |-> None,
     commission_rate |-> None, admin_level |-> None,
     can_manage_users |-> FALSE, can_manage_products |-> FALSE,
     can_manage_orders |-> FALSE, can_manage_payments |-> FALSE,
     can_view_analytics |-> FALSE, can_manage_system |-> FALSE,
     require_2fa |-> FALSE, session_timeout_minutes |-> 0]

EmptyData == [keys |-> {}, val |-> BlankVal]

\* dict.get(key, default)
Get(user_data, key, default) ==
    IF key \in user_data.keys THEN user_data.val[key] ELSE default

\* user_data with user_data[key] = value
Put(user_data, key, value) ==
    [keys |-> user_data.keys \cup {key},
     val |-> [user_data.val EXCEPT ![key] = value]]

\* Python truthiness of a string or None
Truthy(v) == v # None /\ v # ""

\* the bags that carry the three required keys with usable values
ValidData ==
    { Put(Put(Put(EmptyData, "username", u), "email", e), "password", p) :
        u \in Usernames, e \in Emails, p \in Passwords }

\* the bag the variations below start from
BaseData ==
    Put(Put(Put(EmptyData, "username", "u1"), "email", "e1"), "password", "pw")

\* one required key dropped, or set to the empty string or to None
BrokenData ==
    UNION { { [keys |-> BaseData.keys \ {k}, val |-> [BaseData.val EXCEPT ![k] = None]],
              Put(BaseData, k, ""), Put(BaseData, k, None) } :
            k \in RequiredKeys }

\* one optional key added
OptionalData ==
    { Put(BaseData, "is_superuser", TRUE),
      Put(BaseData, "is_staff", TRUE),
      Put(BaseData, "marketing_emails", TRUE),
      Put(BaseData, "marketing_emails", FALSE),
      Put(BaseData, "theme", "light"),
      Put(BaseData, "theme", None),
      Put(BaseData, "preferred_shipping_method", "express"),
      Put(BaseData, "preferred_shipping_method", None),
      Put(BaseData, "business_type", "business"),
      Put(BaseData, "business_type", None) }

UserData == ValidData \cup BrokenData \cup OptionalData

\* d with each of the four preference keys absent or set to the value that
\* is not the admin default
WithPreference(d, key, values) == {d} \cup { Put(d, key, v) : v \in values }

PreferenceData ==
    UNION { UNION { UNION { WithPreference(d3, "theme", {"light"})
                            : d3 \in WithPreference(d2, "push_notifications", {FALSE}) }
                    : d2 \in WithPreference(d1, "newsletter_subscription", {TRUE}) }
            : d1 \in WithPreference(BaseData, "marketing_emails", {TRUE}) }

\* the bags that set one field of a kind-specific profile
ProfileData ==
    { BaseData,
      Put(BaseData, "preferred_shipping_method", "express"),
      Put(BaseData, "business_type", "business"),
      Put(BaseData, "commission_rate", "4.5"),
      Put(BaseData, "commission_rate", None),
      Put(BaseData, "admin_level", "senior"),
      Put(BaseData, "can_manage_users", TRUE),
      Put(BaseData, "can_manage_system", TRUE),
      Put(BaseData, "require_2fa", FALSE),
      Put(BaseData, "session_timeout_minutes", 60),
      Put(Put(BaseData, "admin_level", "super"), "can_manage_payments", TRUE) }

-----------------------------------------------------------------------------
(* The store *)

EmptyDb ==
    [users |-> {}, profile |-> {}, preferences |-> {}, analytics |-> {},
     business_info |-> {}, buyer_profile |-> {}, seller_profile |-> {},
     admin_profile |-> {}]

CompanionTables == {"profile", "preferences", "analytics", "business_info"}
KindTables == {"buyer_profile", "seller_profile", "admin_profile"}

\* the primary key the store gives the next users_user row
NextId(d) ==
    IF d.users = {} THEN 1
    ELSE 1 + (CHOOSE m \in {u.id : u \in d.users} :
                \A u \in d.users : u.id <= m)

RowsOf(d, table, id) == { r \in d[table] : r.user = id }

\* the store without the rows written for user id
Rollback(d, id) ==
    [users |-> { u \in d.users : u.id # id },
     profile |-> d.profile \ RowsOf(d, "profile", id),
     preferences |-> d.preferences \ RowsOf(d, "preferences", id),
     analytics |-> d.analytics \ RowsOf(d, "analytics", id),
     business_info |-> d.business_info \ RowsOf(d, "business_info", id),
     buyer_profile |-> d.buyer_profile \ RowsOf(d, "buyer_profile", id),
     seller_profile |-> d.seller_profile \ RowsOf(d, "seller_profile", id),
     admin_profile |-> d.admin_profile \ RowsOf(d, "admin_profile", id)]

-----------------------------------------------------------------------------
(* One run of create_account inside transaction.atomic: the store as the   *)
(* run sees it, the user it created (0: none yet), the exception that is   *)
(* propagating (NoExc: none), whether the transaction is marked for        *)
(* rollback, and the profile_data dict being built.                        *)

NoObjects == [k \in {} |-> 0]
NoFlags == [k \in {} |-> TRUE]

\* a run that starts on store d
NewRun(d) ==
    [db |-> d, user |-> 0, exc |-> NoExc, needs_rollback |-> FALSE,
     objects |-> NoObjects, flags |-> NoFlags]

\* the store as a call of create_account meets it: reachable throughout,
\* not reachable when the transaction is opened, or lost before the commit
StoreUp == "up"
StoreStates == {StoreUp, "down", "lost"}

\* entering transaction.atomic, which wraps the whole method: the
\* connection is opened, and OperationalError is raised when the store
\* cannot be reached
Begin(d, store) ==
    IF store = "down"
    THEN [NewRun(d) EXCEPT !.exc = "OperationalError"]
    ELSE NewRun(d)

\* a raise; mark: the failing statement was a Model.save, which marks the
\* enclosing atomic block for rollback
Raise(t, exc, mark) ==
    [t EXCEPT !.exc = exc, !.needs_rollback = @ \/ mark]

\* the value of e, computed once, handed to F
Let(e, F(_)) == CHOOSE r \in { F(v) : v \in {e} } : TRUE

\* statement sequencing: the statements F that follow the one that left t
\* run unless an exception is propagating
Try(t, F(_)) == Let(t, LAMBDA v : IF v.exc # NoExc THEN v ELSE F(v))

\* field defaults of UserPreferences
DefaultPreferences(id) ==
    [user |-> id, marketing_emails |-> TRUE, newsletter_subscription |-> FALSE,
     push_notifications |-> TRUE, theme |-> "light"]

\* field defaults of UserBusinessInfo
DefaultBusinessInfo(id) ==
    [user |-> id, referral_code |-> "", account_status |-> "active",
     is_premium |-> FALSE]

DefaultRow(table, id) ==
    CASE table = "preferences" -> DefaultPreferences(id)
      [] table = "business_info" -> DefaultBusinessInfo(id)
      [] OTHER -> [user |-> id]

\* the unique constraints of the companion tables besides the OneToOne key
UniqueViolation(d, table, row) ==
    /\ table = "business_info"
    /\ \E r \in d.business_info : r.referral_code = row.referral_code

\* Model.objects.get_or_create(user=instance): the row when there is one,
\* else an INSERT under a savepoint, which undoes the INSERT when it fails
get_or_create(t, table) ==
    IF RowsOf(t.db, table, t.user) # {} THEN t
    ELSE IF UniqueViolation(t.db, table, DefaultRow(table, t.user))
         THEN Raise(t, "IntegrityError", FALSE)
         ELSE [t EXCEPT !.db[table] = @ \cup {DefaultRow(table, t.user)}]

\* post_save receiver
create_user_related_models(t, created) ==
    IF ~created THEN t
    ELSE Try(get_or_create(t, "profile"), LAMBDA t1 :
         Try(get_or_create(t1, "preferences"), LAMBDA t2 :
         Try(get_or_create(t2, "analytics"), LAMBDA t3 :
             get_or_create(t3, "business_info"))))

\* post_save receiver: saves the companions that exist (their fields are
\* written back as they are), creates none
save_user_related_models(t) ==
    [t EXCEPT !.db.profile = @ \cup RowsOf(t.db, "profile", t.user),
              !.db.preferences = @ \cup RowsOf(t.db, "preferences", t.user),
              !.db.analytics = @ \cup RowsOf(t.db, "analytics", t.user),
              !.db.business_info = @ \cup RowsOf(t.db, "business_info", t.user)]

\* the post_save signal: the receivers in the order they are connected
post_save(t, created) ==
    Try(create_user_related_models(t, created), LAMBDA t1 :
        save_user_related_models(t1))

\* the fields of User: those of AbstractUser and the four the class adds
UserFields ==
    {"id", "password", "last_login", "is_superuser", "username", "first_name",
     "last_name", "email", "is_staff", "is_active", "date_joined",
     "is_email_verified", "created_at", "updated_at"}

\* extra_fields.setdefault(key, default)
SetDefault(extra_fields, key, default) ==
    IF key \in DOMAIN extra_fields THEN extra_fields[key] ELSE default

\* the INSERT into users_user: username and email are unique
insert_user(t, username, email, is_staff, is_superuser) ==
    IF \E u \in t.db.users : u.username = username \/ u.email = email
    THEN Raise(t, "IntegrityError", TRUE)
    ELSE [t EXCEPT !.user = NextId(t.db),
                   !.db.users = @ \cup
                      {[id |-> NextId(t.db), username |-> username, email |-> email,
                        is_staff |-> is_staff, is_superuser |-> is_superuser]}]

\* User.objects.create_user(username, email, password, **extra_fields) up to
\* the INSERT: User(username=, email=, **extra_fields) raises TypeError for
\* a keyword that names no field of User, before anything is written
create_user(t, username, email, extra_fields) ==
    IF ~(DOMAIN extra_fields \subseteq UserFields)
    THEN Raise(t, "TypeError", FALSE)
    ELSE insert_user(t, username, email,
                     SetDefault(extra_fields, "is_staff", FALSE),
                     SetDefault(extra_fields, "is_superuser", FALSE))

\* AccountFactoryAbstract._create_base_user up to the INSERT: the required
\* fields are checked, then create_user is called with the factory's kind
\* as user_type
begin_create_base_user(factory, t, user_data) ==
    LET username == Get(user_data, "username", None)
        email == Get(user_data, "email", None)
        password == Get(user_data, "password", None)
    IN  IF ~(Truthy(username) /\ Truthy(email) /\ Truthy(password))
        THEN Raise(t, "ValueError", FALSE)
        ELSE create_user(t, username, email,
                         [user_type |-> get_user_type(factory),
                          first_name |-> Get(user_data, "first_name", ""),
                          last_name |-> Get(user_data, "last_name", "")])

\* AccountFactoryAbstract._create_base_user: the save of the new user ends
\* with the post_save signal
create_base_user(factory, t, user_data) ==
    Try(begin_create_base_user(factory, t, user_data), LAMBDA t1 :
        post_save(t1, TRUE))

\* AdminAccountFactory.create_account: the admin flags and user.save()
set_admin_flags(t, user_data) ==
    post_save([t EXCEPT !.db.users =
                 { IF u.id = t.user
                   THEN [u EXCEPT !.is_staff = TRUE,
                                  !.is_superuser = Get(user_data, "is_superuser", FALSE)]
                   ELSE u : u \in @ }],
              FALSE)

\* AccountFactoryAbstract._setup_base_profiles: reads the four companions.
\* The four SELECTs are one step: companion rows are only ever added, so
\* four reads with other callers' statements in between return, or raise,
\* as this step does on the store of the last of them
setup_base_profiles(t) ==
    IF \E table \in CompanionTables : RowsOf(t.db, table, t.user) = {}
    THEN Raise(t, "RelatedObjectDoesNotExist", FALSE)
    ELSE [t EXCEPT !.objects =
            [k \in {"user_profile", "user_preferences", "user_analytics",
                    "user_business_info"} |-> t.user]]

\* profile_data[key] = the kind-specific profile
SetObject(t, key) ==
    [t EXCEPT !.objects =
        [k \in DOMAIN t.objects \cup {key} |-> t.user]]

\* profile_data.update(settings_data), every marker being True
UpdateFlags(t, keys) ==
    [t EXCEPT !.flags = [k \in DOMAIN t.flags \cup keys |-> TRUE]]

-----------------------------------------------------------------------------
(* The kind-specific profiles.  BuyerProfile, SellerProfile and            *)
(* AdminProfile are imported from models (factories.py:19): one row per    *)
(* user, every column NOT NULL.                                            *)

\* Model.objects.create(user=user, ...): the INSERT fails on a None value
create_row(t, table, row, values) ==
    IF None \in values \/ RowsOf(t.db, table, t.user) # {}
    THEN Raise(t, "IntegrityError", TRUE)
    ELSE [t EXCEPT !.db[table] = @ \cup {row}]

\* the buyer profile made without reading the bag
Buyer_create_type_specific_profile_always_standard(t, user_data) ==
    create_row(t, "buyer_profile",
               [user |-> t.user, preferred_shipping_method |-> "standard"],
               {"standard"})

\* BuyerAccountFactory._create_type_specific_profile
Buyer_create_type_specific_profile(t, user_data) ==
    LET method == Get(user_data, "preferred_shipping_method", "standard")
    IN  create_row(t, "buyer_profile",
                   [user |-> t.user, preferred_shipping_method |-> method],
                   {method})

\* SellerAccountFactory._create_type_specific_profile
Seller_create_type_specific_profile(t, user_data) ==
    LET business_type == Get(user_data, "business_type", "individual")
        commission_rate == Get(user_data, "commission_rate", "5.0")
    IN  create_row(t, "seller_profile",
                   [user |-> t.user, business_type |-> business_type,
                    commission_rate |-> commission_rate],
                   {business_type, commission_rate})

\* AdminAccountFactory._create_type_specific_profile
Admin_create_type_specific_profile(t, user_data) ==
    LET admin_level == Get(user_data, "admin_level", "junior")
    IN  create_row(t, "admin_profile",
                   [user |-> t.user,
                    admin_level |-> admin_level,
                    can_manage_users |-> Get(user_data, "can_manage_users", FALSE),
                    can_manage_products |-> Get(user_data, "can_manage_products", FALSE),
                    can_manage_orders |-> Get(user_data, "can_manage_orders", FALSE),
                    can_manage_payments |-> Get(user_data, "can_manage_payments", FALSE),
                    can_view_analytics |-> Get(user_data, "can_view_analytics", FALSE),
                    can_manage_system |-> Get(user_data, "can_manage_system", FALSE),
                    require_2fa |-> Get(user_data, "require_2fa", TRUE),
                    session_timeout_minutes |->
                        Get(user_data, "session_timeout_minutes", 30)],
                   {admin_level})

\* the key of profile_data the factory stores its profile under
ProfileKey(factory) ==
    CASE factory = "BuyerAccountFactory" -> "buyer_profile"
      [] factory = "SellerAccountFactory" -> "seller_profile"
      [] factory = "AdminAccountFactory" -> "admin_profile"

\* self._create_type_specific_profile(user, user_data) of each factory
type_specific_profile(factory, t, user_data) ==
    CASE factory = "BuyerAccountFactory" ->
            Buyer_create_type_specific_profile(t, user_data)
      [] factory = "SellerAccountFactory" ->
            Seller_create_type_specific_profile(t, user_data)
      [] factory = "AdminAccountFactory" ->
            Admin_create_type_specific_profile(t, user_data)

\* the profile is created and stored in profile_data under the kind's key
create_type_specific_profile(factory, t, user_data) ==
    Try(type_specific_profile(factory, t, user_data), LAMBDA t1 :
        SetObject(t1, ProfileKey(factory)))

-----------------------------------------------------------------------------
(* The kind-specific settings *)

\* user.preferences, user.business_info: the row of the user, handed to F,
\* or RelatedObjectDoesNotExist when the user has none
Related(t, table, F(_)) ==
    IF RowsOf(t.db, table, t.user) = {}
    THEN Raise(t, "RelatedObjectDoesNotExist", FALSE)
    ELSE F(CHOOSE r \in t.db[table] : r.user = t.user)

\* preferences.save(): the UPDATE fails on a None value
save_preferences(t, row) ==
    IF row.theme = None THEN Raise(t, "IntegrityError", TRUE)
    ELSE [t EXCEPT !.db.preferences = (@ \ RowsOf(t.db, "preferences", t.user)) \cup {row}]

\* business_info.save()
save_business_info(t, row) ==
    [t EXCEPT !.db.business_info = (@ \ RowsOf(t.db, "business_info", t.user)) \cup {row}]

\* the buyer's assignments with marketing emails switched off
Buyer_preferences_no_marketing(preferences, user_data) ==
    [preferences EXCEPT
       !.marketing_emails = FALSE,
       !.newsletter_subscription = Get(user_data, "newsletter_subscription", TRUE),
       !.push_notifications = Get(user_data, "push_notifications", TRUE)]

\* BuyerAccountFactory._configure_type_specific_settings: the assignments
\* to preferences, to business_info, and the markers returned
Buyer_preferences(preferences, user_data) ==
    [preferences EXCEPT
       !.marketing_emails = Get(user_data, "marketing_emails", TRUE),
       !.newsletter_subscription = Get(user_data, "newsletter_subscription", TRUE),
       !.push_notifications = Get(user_data, "push_notifications", TRUE)]

Buyer_business_info(business_info) ==
    [business_info EXCEPT !.account_status = "active"]

Buyer_markers == {"buyer_preferences_configured", "buyer_business_info_configured"}

\* the seller's assignments copied from the buyer factory
Seller_preferences_as_buyer(preferences, user_data) ==
    Buyer_preferences(preferences, user_data)

\* SellerAccountFactory._configure_type_specific_settings
Seller_preferences(preferences, user_data) ==
    [preferences EXCEPT
       !.marketing_emails = Get(user_data, "marketing_emails", FALSE),
       !.newsletter_subscription = Get(user_data, "newsletter_subscription", FALSE),
       !.push_notifications = Get(user_data, "push_notifications", TRUE)]

Seller_business_info(business_info) ==
    [business_info EXCEPT !.account_status = "pending"]

Seller_markers ==
    {"seller_preferences_configured", "seller_business_info_configured",
     "verification_required"}

\* the admin's assignments with the two mail preferences read from the bag
Admin_preferences_reads_mail(preferences, user_data) ==
    [preferences EXCEPT
       !.marketing_emails = Get(user_data, "marketing_emails", FALSE),
       !.newsletter_subscription = Get(user_data, "newsletter_subscription", FALSE),
       !.push_notifications = Get(user_data, "push_notifications", TRUE),
       !.theme = Get(user_data, "theme", "dark")]

\* AdminAccountFactory._configure_type_specific_settings
Admin_preferences(preferences, user_data) ==
    [preferences EXCEPT
       !.marketing_emails = FALSE,
       !.newsletter_subscription = FALSE,
       !.push_notifications = Get(user_data, "push_notifications", TRUE),
       !.theme = Get(user_data, "theme", "dark")]

Admin_business_info(business_info) ==
    [business_info EXCEPT !.account_status = "active", !.is_premium = TRUE]

Admin_markers ==
    {"admin_preferences_configured", "admin_business_info_configured",
     "admin_permissions_set"}

\* the preferences row the method of factory saves, having read preferences
settings_preferences(factory, preferences, user_data) ==
    CASE factory = "BuyerAccountFactory" -> Buyer_preferences(preferences, user_data)
      [] factory = "SellerAccountFactory" -> Seller_preferences(preferences, user_data)
      [] factory = "AdminAccountFactory" -> Admin_preferences(preferences, user_data)

\* the business_info row the method of factory saves
settings_business_info(factory, business_info) ==
    CASE factory = "BuyerAccountFactory" -> Buyer_business_info(business_info)
      [] factory = "SellerAccountFactory" -> Seller_business_info(business_info)
      [] factory = "AdminAccountFactory" -> Admin_business_info(business_info)

\* the keys of the dict the method of factory returns
settings_markers(factory) ==
    CASE factory = "BuyerAccountFactory" -> Buyer_markers
      [] factory = "SellerAccountFactory" -> Seller_markers
      [] factory = "AdminAccountFactory" -> Admin_markers

\* self._configure_type_specific_settings(user, user_data) inside
\* create_account: the statements in order, on the rows of the transaction
configure_type_specific_settings(factory, t, user_data) ==
    Related(t, "preferences", LAMBDA preferences :
    Try(save_preferences(t, settings_preferences(factory, preferences, user_data)),
        LAMBDA t1 :
    Related(t1, "business_info", LAMBDA business_info :
    Try(save_business_info(t1, settings_business_info(factory, business_info)),
        LAMBDA t2 :
        UpdateFlags(t2, settings_markers(factory))))))

-----------------------------------------------------------------------------
(* AccountCreationResult *)

\* AccountCreationResult.__init__; user 0 is None
AccountCreationResult(user, objects, flags) ==
    [user |-> user, objects |-> objects, flags |-> flags,
     success |-> TRUE, errors |-> <<>>]

\* add_error that leaves the success flag alone
add_error_keeps_flag(result, error) ==
    [result EXCEPT !.errors = Append(@, error)]

\* AccountCreationResult.add_error
add_error(result, error) ==
    [result EXCEPT !.errors = Append(@, error), !.success = FALSE]

\* is_successful that also asks for a user
is_successful_requires_user(result) ==
    result.success /\ result.errors = <<>> /\ result.user # 0

\* AccountCreationResult.is_successful
is_successful(result) == result.success /\ result.errors = <<>>

-----------------------------------------------------------------------------
(* The factories' create_account *)

\* the statements of the try block that follow _create_base_user, in order,
\* each run only when no earlier one raised
finish_account(factory, t, user_data) ==
    Try(IF factory = "AdminAccountFactory"
        THEN set_admin_flags(t, user_data)
        ELSE t, LAMBDA t2 :
    Try(setup_base_profiles(t2), LAMBDA t3 :
    Try(create_type_specific_profile(factory, t3, user_data), LAMBDA t4 :
        configure_type_specific_settings(factory, t4, user_data))))

\* the try block of create_account
create_account_body(factory, t, user_data) ==
    Try(create_base_user(factory, t, user_data), LAMBDA t1 :
        finish_account(factory, t1, user_data))

NoResult == [user |-> 0, objects |-> NoObjects, flags |-> NoFlags,
             success |-> FALSE, errors |-> <<>>]

\* end_of_try whose except clause returns the empty result without add_error
end_of_try_forgets_error(factory, t) ==
    IF t.exc = NoExc
    THEN [raised |-> NoExc,
          result |-> AccountCreationResult(t.user, t.objects, t.flags)]
    ELSE [raised |-> NoExc,
          result |-> AccountCreationResult(0, NoObjects, NoFlags)]

\* end_of_try with an except clause that lets ValueError through
end_of_try_reraises_value_error(factory, t) ==
    IF t.exc = NoExc
    THEN [raised |-> NoExc,
          result |-> AccountCreationResult(t.user, t.objects, t.flags)]
    ELSE IF t.exc = "ValueError"
    THEN [raised |-> t.exc, result |-> NoResult]
    ELSE [raised |-> NoExc,
          result |-> add_error(AccountCreationResult(0, NoObjects, NoFlags),
                               <<FailureLabel(factory), t.exc>>)]

\* how the try statement ends: the result returned, or the exception that
\* leaves create_account (NoExc: none).  except Exception catches every
\* exception and turns it into a failed result
end_of_try(factory, t) ==
    IF t.exc = NoExc
    THEN [raised |-> NoExc,
          result |-> AccountCreationResult(t.user, t.objects, t.flags)]
    ELSE [raised |-> NoExc,
          result |-> add_error(AccountCreationResult(0, NoObjects, NoFlags),
                               <<FailureLabel(factory), t.exc>>)]

\* leaving transaction.atomic, which wraps the whole method: the block
\* commits when the method returns, unless a failed save marked it; it
\* rolls back when marked or when an exception leaves the method
\* the store it leaves and the exception that leaves the method: a commit
\* that fails raises OperationalError and nothing of the block is kept; a
\* rollback that fails closes the connection and raises nothing of its own
atomic_exit(t, raised, store) ==
    IF t.needs_rollback \/ raised # NoExc
    THEN [db |-> Rollback(t.db, t.user), raised |-> raised]
    ELSE IF store = "lost"
    THEN [db |-> Rollback(t.db, t.user), raised |-> "OperationalError"]
    ELSE [db |-> t.db, raised |-> NoExc]

\* factory.create_account(user_data) on store d: an exception raised on
\* entering or leaving transaction.atomic is outside the try statement
factory_create_account(factory, d, user_data, store) ==
    Let(Begin(d, store), LAMBDA t0 :
        IF t0.exc # NoExc
        THEN [db |-> d, raised |-> t0.exc, result |-> NoResult]
        ELSE Let(create_account_body(factory, t0, user_data), LAMBDA t :
             Let(end_of_try(factory, t), LAMBDA end :
             Let(atomic_exit(t, end.raised, store), LAMBDA exit :
                 [db |-> exit.db, raised |-> exit.raised,
                  result |-> IF exit.raised # NoExc THEN NoResult
                             ELSE end.result]))))

-----------------------------------------------------------------------------
(* AccountFactoryRegistry: _factories, a dict, as the sequence of its      *)
(* items in insertion order                                                *)

InitFactories ==
    << [tag |-> BUYER, cls |-> "BuyerAccountFactory"],
       [tag |-> SELLER, cls |-> "SellerAccountFactory"],
       [tag |-> ADMIN, cls |-> "AdminAccountFactory"] >>

\* user_type in cls._factories
Bound(fs, user_type) == \E i \in DOMAIN fs : fs[i].tag = user_type

\* cls._factories[user_type]
Lookup(fs, user_type) == fs[CHOOSE i \in DOMAIN fs : fs[i].tag = user_type].cls

\* get_factory that falls back to the first registered factory
get_factory_with_default(fs, user_type) ==
    IF ~Bound(fs, user_type)
    THEN [raised |-> NoExc, factory |-> fs[1].cls]
    ELSE [raised |-> NoExc, factory |-> Lookup(fs, user_type)]

\* AccountFactoryRegistry.get_factory: the exception raised (NoExc: none)
\* and the class of the factory returned
get_factory(fs, user_type) ==
    IF ~Bound(fs, user_type)
    THEN [raised |-> "ValueError", factory |-> ""]
    ELSE [raised |-> NoExc, factory |-> Lookup(fs, user_type)]

\* register_factory that rebuilds the dict with the new binding alone
register_factory_replaces_all(fs, user_type, factory_class) ==
    << [tag |-> user_type, cls |-> factory_class] >>

\* register_factory that keeps an existing binding (dict.setdefault)
register_factory_keeps_first(fs, user_type, factory_class) ==
    IF Bound(fs, user_type)
    THEN fs
    ELSE Append(fs, [tag |-> user_type, cls |-> factory_class])

\* AccountFactoryRegistry.register_factory: cls._factories[user_type] = factory_class
register_factory(fs, user_type, factory_class) ==
    IF Bound(fs, user_type)
    THEN [i \in DOMAIN fs |->
            IF fs[i].tag = user_type THEN [fs[i] EXCEPT !.cls = factory_class] ELSE fs[i]]
    ELSE Append(fs, [tag |-> user_type, cls |-> factory_class])

\* get_supported_user_types that lists the built-in kinds only
get_supported_user_types_builtin(fs) == <<BUYER, SELLER, ADMIN>>

\* AccountFactoryRegistry.get_supported_user_types: list(cls._factories.keys())
get_supported_user_types(fs) == [i \in DOMAIN fs |-> fs[i].tag]

-----------------------------------------------------------------------------
(* The operations.  call is the last call made, ret what it gave back.     *)

\* request.POST of the registration form; None: the key is not posted
NoForm ==
    [user_type |-> None, username |-> None, email |-> None, password |-> None,
     preferred_shipping_method |-> None, newsletter_subscription |-> None,
     business_type |-> None, admin_level |-> None, can_manage_users |-> None]

Call(op, user_type, user_data, factory_class) ==
    [op |-> op, user_type |-> user_type, user_data |-> user_data,
     factory_class |-> factory_class, user |-> 0, error |-> "", nth |-> 0,
     form |-> NoForm, store |-> StoreUp]

Ret(kind, raised, result, factory, types) ==
    [kind |-> kind, raised |-> raised, result |-> result, factory |-> factory,
     types |-> types, target |-> "", messages |-> <<>>, reached |-> FALSE,
     statement |-> ""]

\* the concurrent callers: of create_account, and of the calls made outside
\* a transaction
Procs == {"p1", "p2"}

\* no row: the relation is not cached on the user object
NoRow == [user |-> 0]
NoCache == [table \in CompanionTables |-> NoRow]

\* a caller: the call it is in (op), the statement it is at (pc), the
\* arguments, its run, and the companion rows its user object holds
IdleTxn == [pc |-> "idle", op |-> "", factory |-> "", user_data |-> EmptyData,
            t |-> NewRun(EmptyDb), result |-> NoResult, cache |-> NoCache]

Init ==
    /\ db = EmptyDb
    /\ factories = InitFactories
    /\ call = Call("none", "", EmptyData, "")
    /\ ret = Ret("none", NoExc, NoResult, "", <<>>)
    /\ txn = [p \in Procs |-> IdleTxn]

\* create_account(user_type, user_data), the module's entry point, under
\* registry fs on store d: the store it leaves and what it returns or raises
create_account(fs, d, user_type, user_data, store) ==
    Let(get_factory(fs, user_type), LAMBDA f :
        IF f.raised # NoExc
        THEN [db |-> d, ret |-> Ret("raise", f.raised, NoResult, "", <<>>)]
        ELSE Let(factory_create_account(f.factory, d, user_data, store), LAMBDA out :
                 [db |-> out.db,
                  ret |-> IF out.raised # NoExc
                          THEN Ret("raise", out.raised, NoResult, "", <<>>)
                          ELSE Ret("result", NoExc, out.result, "", <<>>)]))

\* a call of create_account(user_type, user_data) that meets the store as
\* store says
CreateAccountOn(user_type, user_data, store) ==
    /\ call' = [Call("create_account", user_type, user_data, "") EXCEPT
                  !.store = store]
    /\ \E out \in {create_account(factories, db, user_type, user_data, store)} :
          /\ db' = out.db
          /\ ret' = out.ret
    /\ UNCHANGED <<factories, txn>>

\* a call of create_account(user_type, user_data) on a store that can be
\* reached
CreateAccount(user_type, user_data) ==
    CreateAccountOn(user_type, user_data, StoreUp)

-----------------------------------------------------------------------------
(* Calls made outside a transaction: User.objects.create_user, user.save() *)
(* and a factory's _configure_type_specific_settings on a stored user.     *)
(* Every statement is committed as it runs, so a caller runs one statement *)
(* at a step and the statements of other callers come in between.          *)

Companions == <<"profile", "preferences", "analytics", "business_info">>
Creates == <<"create_profile", "create_preferences", "create_analytics",
             "create_business_info">>
Reads == <<"read_profile", "read_preferences", "read_analytics",
           "read_business_info">>
Saves == <<"save_profile", "save_preferences", "save_analytics",
           "save_business_info">>

\* the get_or_create statements of create_user_related_models
CreateStatements == { Creates[i] : i \in DOMAIN Creates }
\* hasattr(instance, name), user.preferences, user.business_info: the SELECT
\* of a relation the user object does not hold
ReadStatements == { Reads[i] : i \in DOMAIN Reads }
\* the save() of a companion: the UPDATE of the row the caller holds
SaveStatements == { Saves[i] : i \in DOMAIN Saves }

\* the table a statement is about
TableOf(pc) ==
    Companions[CHOOSE i \in DOMAIN Companions : pc \in {Creates[i], Reads[i], Saves[i]}]

\* save_user_related_models: hasattr and save for each companion in turn
SaveRelatedStatements ==
    <<"read_profile", "save_profile", "read_preferences", "save_preferences",
      "read_analytics", "save_analytics", "read_business_info",
      "save_business_info">>

\* the statements of each call, in order
Statements(op) ==
    CASE op = "create_user" -> <<"insert_user">> \o Creates \o SaveRelatedStatements
      [] op = "save" -> <<"update_user">> \o SaveRelatedStatements
      [] op = "configure_type_specific_settings" ->
            <<"read_preferences", "save_preferences", "read_business_info",
              "save_business_info">>

StepOps == {"create_user", "save", "configure_type_specific_settings"}

\* the keyword arguments of a user made outside the factories: none
\* (create_user) or those of create_superuser
NewUserFlags == {NoFlags, [is_staff |-> TRUE, is_superuser |-> TRUE]}

\* the arguments of create_user as a bag
NewUserData(username, email, extra_fields) ==
    LET named == Put(Put(EmptyData, "username", username), "email", email)
    IN  IF extra_fields = NoFlags THEN named
        ELSE Put(Put(named, "is_staff", extra_fields.is_staff),
                 "is_superuser", extra_fields.is_superuser)

\* **extra_fields of the create_user call whose arguments are user_data
ExtraFields(user_data) ==
    [k \in user_data.keys \cap {"is_staff", "is_superuser"} |-> user_data.val[k]]

\* the row a save() of caller x writes to table: the row x holds, with the
\* assignments of the settings method when x is in one
RowToSave(x, table) ==
    IF x.op = "configure_type_specific_settings"
    THEN IF table = "preferences"
         THEN settings_preferences(x.factory, x.cache[table], x.user_data)
         ELSE settings_business_info(x.factory, x.cache[table])
    ELSE x.cache[table]

\* row.save()
save_row(t, table, row) ==
    CASE table = "preferences" -> save_preferences(t, row)
      [] table = "business_info" -> save_business_info(t, row)
      [] OTHER -> [t EXCEPT !.db[table] = (@ \ RowsOf(t.db, table, t.user)) \cup {row}]

\* the statement caller x is at, run on store d: the run it leaves (with the
\* store), the rows x holds afterwards, and whether a hasattr found nothing
RunStatement(x, d) ==
    Let([x.t EXCEPT !.db = d], LAMBDA t :
    CASE x.pc = "insert_user" ->
            [t |-> create_user(t, Get(x.user_data, "username", None),
                               Get(x.user_data, "email", None),
                               ExtraFields(x.user_data)),
             cache |-> x.cache, missing |-> FALSE]
      [] x.pc = "update_user" ->
            [t |-> [t EXCEPT !.db.users =
                      { IF u.id = t.user
                        THEN [u EXCEPT !.is_staff = Get(x.user_data, "is_staff", FALSE)]
                        ELSE u : u \in @ }],
             cache |-> x.cache, missing |-> FALSE]
      [] x.pc \in CreateStatements ->
            Let(get_or_create(t, TableOf(x.pc)), LAMBDA t1 :
                [t |-> t1,
                 cache |-> IF t1.exc = NoExc /\ RowsOf(d, TableOf(x.pc), t.user) = {}
                           THEN [x.cache EXCEPT ![TableOf(x.pc)] =
                                    DefaultRow(TableOf(x.pc), t.user)]
                           ELSE x.cache,
                 missing |-> FALSE])
      [] x.pc \in ReadStatements ->
            IF RowsOf(d, TableOf(x.pc), t.user) = {}
            THEN [t |-> IF x.op = "configure_type_specific_settings"
                        THEN Raise(t, "RelatedObjectDoesNotExist", FALSE)
                        ELSE t,
                  cache |-> x.cache, missing |-> TRUE]
            ELSE [t |-> t,
                  cache |-> [x.cache EXCEPT ![TableOf(x.pc)] =
                               CHOOSE r \in d[TableOf(x.pc)] : r.user = t.user],
                  missing |-> FALSE]
      [] x.pc \in SaveStatements ->
            [t |-> save_row(t, TableOf(x.pc), RowToSave(x, TableOf(x.pc))),
             cache |-> [x.cache EXCEPT ![TableOf(x.pc)] = RowToSave(x, TableOf(x.pc))],
             missing |-> FALSE])

\* the statement of op that follows statement pc: a relation the user object
\* holds is not read again, and a relation that is missing is not saved;
\* "return" after the last
FollowingStatement(op, pc, cache, missing) ==
    LET S == Statements(op)
        i == CHOOSE j \in DOMAIN S : S[j] = pc
        later == { j \in (i + 1)..Len(S) :
                     /\ ~(S[j] \in ReadStatements /\ cache[TableOf(S[j])] # NoRow)
                     /\ ~(missing /\ j = i + 1) }
    IN  IF later = {} THEN "return"
        ELSE S[CHOOSE j \in later : \A k \in later : j <= k]

\* the call caller x is in
CallOf(x) ==
    [Call(x.op, "", x.user_data, x.factory) EXCEPT
       !.user = IF x.op = "create_user" THEN 0 ELSE x.t.user]

\* what the call of x gives back when it ends in run t
ReturnOf(x, t) ==
    IF t.exc # NoExc THEN Ret("raise", t.exc, NoResult, "", <<>>)
    ELSE IF x.op = "create_user"
    THEN Ret("user", NoExc, [NoResult EXCEPT !.user = t.user], "", <<>>)
    ELSE Ret("settings", NoExc,
             [NoResult EXCEPT !.user = t.user,
                              !.flags = UpdateFlags(t, settings_markers(x.factory)).flags],
             "", <<>>)

\* caller p, in state x, runs its statement: the store is the one the
\* statement left; an exception, or the end of the statements, ends the
\* call.  call is the call whose statement ran last and ret names that
\* statement; a save() of a user leaves call and ret as they are
RunCall(p, x) ==
    /\ \E out \in {RunStatement(x, db)} :
       \E next \in {IF out.t.exc # NoExc THEN "return"
                     ELSE FollowingStatement(x.op, x.pc, out.cache, out.missing)} :
          /\ db' = out.t.db
          /\ txn' = [txn EXCEPT ![p] =
                       IF next = "return" THEN IdleTxn
                       ELSE [x EXCEPT !.pc = next, !.cache = out.cache,
                                      !.t = [out.t EXCEPT !.db = EmptyDb]]]
          /\ IF x.op = "save"
             THEN UNCHANGED <<call, ret>>
             ELSE /\ call' = CallOf([x EXCEPT !.t = out.t])
                  /\ ret' = [(IF next = "return"
                              THEN ReturnOf(x, out.t)
                              ELSE Ret("running", NoExc, NoResult, "", <<>>))
                               EXCEPT !.statement = x.pc]
    /\ UNCHANGED factories

\* caller p starts op with its first statement
StartCall(p, op, factory, id, user_data) ==
    /\ txn[p].pc = "idle"
    /\ RunCall(p, [IdleTxn EXCEPT !.pc = Statements(op)[1], !.op = op,
                                  !.factory = factory, !.user_data = user_data,
                                  !.t.user = id])

\* User.objects.create_user(username, email, password, **extra_fields) by
\* caller p: a user saved by the framework (createsuperuser, a shell), not
\* by a factory; the INSERT
SaveNewUser(p, username, email, extra_fields) ==
    /\ Cardinality(db.users) < MaxUsers
    /\ StartCall(p, "create_user", "", 0, NewUserData(username, email, extra_fields))

\* user.is_staff = is_staff; user.save() on the stored user id by caller p:
\* the UPDATE
SaveUser(p, id, is_staff) ==
    /\ \E u \in db.users : u.id = id
    /\ StartCall(p, "save", "", id, Put(EmptyData, "is_staff", is_staff))

\* factory._configure_type_specific_settings(user, user_data) on the stored
\* user id by caller p, outside create_account: user.preferences
ConfigureTypeSpecificSettings(p, factory_class, id, user_data) ==
    /\ \E u \in db.users : u.id = id
    /\ StartCall(p, "configure_type_specific_settings", factory_class, id, user_data)

\* caller p runs the next statement of the call it is in
StepCall(p) ==
    /\ txn[p].op \in StepOps
    /\ RunCall(p, txn[p])

\* get_factory that binds an unknown kind to the buyer factory on the way
\* (dict.setdefault)
GetFactory_registers_default(user_type) ==
    /\ call' = Call("get_factory", user_type, EmptyData, "")
    /\ factories' = IF Bound(factories, user_type)
                    THEN factories
                    ELSE register_factory(factories, user_type, "BuyerAccountFactory")
    /\ \E f \in {get_factory(factories', user_type)} :
          ret' = Ret("factory", NoExc, NoResult, f.factory, <<>>)
    /\ UNCHANGED <<db, txn>>

\* AccountFactoryRegistry.get_factory(user_type)
GetFactory(user_type) ==
    /\ call' = Call("get_factory", user_type, EmptyData, "")
    /\ LET f == get_factory(factories, user_type)
       IN  ret' = IF f.raised # NoExc
                  THEN Ret("raise", f.raised, NoResult, "", <<>>)
                  ELSE Ret("factory", NoExc, NoResult, f.factory, <<>>)
    /\ UNCHANGED <<db, factories, txn>>

\* AccountFactoryRegistry.register_factory(user_type, factory_class)
RegisterFactory(user_type, factory_class) ==
    /\ call' = Call("register_factory", user_type, EmptyData, factory_class)
    /\ factories' = register_factory(factories, user_type, factory_class)
    /\ ret' = Ret("none", NoExc, NoResult, "", <<>>)
    /\ UNCHANGED <<db, txn>>

\* AccountFactoryRegistry.get_supported_user_types()
GetSupportedUserTypes ==
    /\ call' = Call("get_supported_user_types", "", EmptyData, "")
    /\ ret' = Ret("types", NoExc, NoResult, "", get_supported_user_types(factories))
    /\ UNCHANGED <<db, factories, txn>>

\* the users the framework saves
Identities == {<<"u1", "e1">>, <<"u2", "e2">>}

NextAccounts ==
    \/ \E user_type \in Tags, user_data \in UserData :
          CreateAccount(user_type, user_data)
    \/ \E identity \in Identities :
          SaveNewUser("p1", identity[1], identity[2], NoFlags)
    \/ StepCall("p1")

NextRegistry ==
    \/ \E user_type \in Tags : GetFactory(user_type)
    \/ \E user_type \in Tags, factory_class \in FactoryClasses :
          RegisterFactory(user_type, factory_class)
    \/ GetSupportedUserTypes

\* account creation under the registry as the module sets it up, on a store
\* that may hold users saved by the framework
Spec == Init /\ [][NextAccounts]_vars

\* the bags of the calls that meet a store that may fail: the required
\* fields, and the password missing
StoreData ==
    { BaseData,
      Put(Put(Put(EmptyData, "username", "u2"), "email", "e2"), "password", "pw"),
      Put(BaseData, "password", "") }

NextStore ==
    \/ \E user_type \in Tags, user_data \in StoreData, store \in StoreStates :
          CreateAccountOn(user_type, user_data, store)
    \/ SaveNewUser("p1", "u1", "e1", NoFlags)
    \/ StepCall("p1")

\* account creation on a store that may be unreachable
SpecStore == Init /\ [][NextStore]_vars

\* the registry's own operations
SpecRegistry == Init /\ [][NextRegistry]_vars

\* the arguments of AccountCreationResult(user, profile_data) and add_error
ResultUsers == {0, 1, 2}
ProfileDatas == {NoObjects, [k \in {"user_profile"} |-> 1]}
ErrorMessages == {"Test error", "Failed to create buyer account: x", ""}

\* AccountCreationResult(user, profile_data)
NewResult(user, profile_data) ==
    /\ call' = [Call("AccountCreationResult", "", EmptyData, "") EXCEPT !.user = user]
    /\ ret' = Ret("result", NoExc, AccountCreationResult(user, profile_data, NoFlags),
                  "", <<>>)
    /\ UNCHANGED <<db, factories, txn>>

\* result.add_error(error), on the result constructed last
AddError(error) ==
    /\ call.op \in {"AccountCreationResult", "add_error"}
    /\ Len(ret.result.errors) < MaxErrors
    /\ call' = [Call("add_error", "", EmptyData, "") EXCEPT !.error = error]
    /\ ret' = [ret EXCEPT !.result = add_error(@, error)]
    /\ UNCHANGED <<db, factories, txn>>

NextResult ==
    \/ \E user \in ResultUsers, profile_data \in ProfileDatas :
          NewResult(user, profile_data)
    \/ \E error \in ErrorMessages : AddError(error)

\* _setup_base_profiles(user) on the stored user id, outside create_account:
\* what it returns or raises
bundle(d, id) ==
    Let(setup_base_profiles([NewRun(d) EXCEPT !.user = id]), LAMBDA t :
        IF t.exc # NoExc
        THEN Ret("raise", t.exc, NoResult, "", <<>>)
        ELSE Ret("profile_data", NoExc, [NoResult EXCEPT !.objects = t.objects],
                 "", <<>>))

\* a call of _setup_base_profiles on a stored user
SetupBaseProfiles(id) ==
    /\ \E u \in db.users : u.id = id
    /\ \E n \in {IF call.op = "setup_base_profiles" /\ call.user = id
                  THEN call.nth + 1 ELSE 1} :
          /\ n <= MaxBundles
          /\ call' = [Call("setup_base_profiles", "", EmptyData, "") EXCEPT
                         !.user = id, !.nth = n]
    /\ ret' = bundle(db, id)
    /\ UNCHANGED <<db, factories, txn>>

NextBundler ==
    \/ \E p \in Procs, identity \in Identities :
          SaveNewUser(p, identity[1], identity[2], NoFlags)
    \/ \E id \in 1..MaxUsers : SetupBaseProfiles(id)
    \/ \E id \in 1..MaxUsers, is_staff \in BOOLEAN : SaveUser("p1", id, is_staff)
    \/ ConfigureTypeSpecificSettings("p2", "SellerAccountFactory", 1, BaseData)
    \/ \E p \in Procs : StepCall(p)

\* the bundler and further saves on stored users
SpecBundler == Init /\ [][NextBundler]_vars

\* what a method of a factory called on a stored user leaves: the store
\* (each statement is committed as it runs) and what it returns or raises
MethodResult(t, kind) ==
    [db |-> t.db,
     ret |-> IF t.exc # NoExc
             THEN Ret("raise", t.exc, NoResult, "", <<>>)
             ELSE Ret(kind, NoExc,
                      [NoResult EXCEPT !.user = t.user, !.flags = t.flags], "", <<>>)]

\* factory._create_type_specific_profile(user, user_data) on the stored user
\* id, outside create_account
create_profile_on(d, factory, id, user_data) ==
    MethodResult(type_specific_profile(factory, [NewRun(d) EXCEPT !.user = id],
                                       user_data),
                 "profile")

\* a call of _create_type_specific_profile on a stored user that has no
\* kind-specific profile yet
CreateTypeSpecificProfile(factory_class, id, user_data) ==
    /\ \E u \in db.users : u.id = id
    /\ \A table \in KindTables : RowsOf(db, table, id) = {}
    /\ call' = [Call("create_type_specific_profile", "", user_data, factory_class)
                  EXCEPT !.user = id]
    /\ \E out \in {create_profile_on(db, factory_class, id, user_data)} :
          /\ db' = out.db
          /\ ret' = out.ret
    /\ UNCHANGED <<factories, txn>>

NextProfiles ==
    \/ \E identity \in Identities :
          SaveNewUser("p1", identity[1], identity[2], NoFlags)
    \/ StepCall("p1")
    \/ \E user_type \in {BUYER, SELLER, ADMIN} : CreateAccount(user_type, BaseData)
    \/ \E factory_class \in FactoryClasses, id \in 1..MaxUsers,
          user_data \in ProfileData :
          CreateTypeSpecificProfile(factory_class, id, user_data)

\* the kind-specific profiles, made by create_account and by the factories'
\* method on stored users, from bags that set the profile fields
SpecProfiles == Init /\ [][NextProfiles]_vars

\* the bags the buyer and seller settings are given: the preference keys
\* absent or set, marketing_emails to either value
SettingsData ==
    { BaseData,
      Put(BaseData, "marketing_emails", FALSE),
      Put(BaseData, "marketing_emails", TRUE),
      Put(Put(Put(Put(BaseData, "marketing_emails", TRUE),
                  "newsletter_subscription", TRUE),
              "push_notifications", FALSE), "theme", "light") }

\* the bags each factory's settings method is given; the admin's set or omit
\* each of the four preference keys
SettingsDataOf(factory_class) ==
    IF factory_class = "AdminAccountFactory"
    THEN PreferenceData \cup SettingsData ELSE SettingsData

NextSettings ==
    \/ SaveNewUser("p1", "u1", "e1", NoFlags)
    \/ \E p \in Procs : StepCall(p)
    \/ \E user_type \in {BUYER, SELLER, ADMIN} : CreateAccount(user_type, BaseData)
    \/ \E factory_class \in FactoryClasses, id \in 1..MaxUsers :
          \E user_data \in SettingsDataOf(factory_class) :
             ConfigureTypeSpecificSettings("p1", factory_class, id, user_data)
    \/ \E factory_class \in {"BuyerAccountFactory", "SellerAccountFactory"} :
          ConfigureTypeSpecificSettings("p2", factory_class, 1, BaseData)

\* the kind-specific settings, applied by create_account and by the
\* factories' method on a stored user, from bags that set the preference keys
SpecSettings == Init /\ [][NextSettings]_vars

\* a result object, constructed and given errors
SpecResult == Init /\ [][NextResult]_vars

\* the tags and bags of the calls made while the registry is being extended
ExtendTags == {SELLER, "moderator"}
ExtendData ==
    { BaseData,
      Put(Put(Put(EmptyData, "username", "u2"), "email", "e2"), "password", "pw"),
      Put(BaseData, "password", "") }

NextExtend ==
    \/ \E user_type \in ExtendTags, factory_class \in FactoryClasses :
          RegisterFactory(user_type, factory_class)
    \/ \E user_type \in {BUYER} \cup ExtendTags, user_data \in ExtendData :
          CreateAccount(user_type, user_data)

\* accounts created while kinds are registered and rebound
SpecExtend == Init /\ [][NextExtend]_vars

NextFrame ==
    \/ \E user_type \in {BUYER} \cup ExtendTags : GetFactory(user_type)
    \/ GetSupportedUserTypes
    \/ \E user_type \in ExtendTags, factory_class \in FactoryClasses :
          RegisterFactory(user_type, factory_class)
    \/ \E user_type \in {BUYER} \cup ExtendTags, user_data \in ExtendData :
          CreateAccount(user_type, user_data)

\* the four operations of the registry module, in any order
SpecFrame == Init /\ [][NextFrame]_vars

-----------------------------------------------------------------------------
(* UserRegistrationView.post *)

\* the members of UserType
UserTypes == {BUYER, SELLER, ADMIN}

\* request.POST.get(key, default)
PostGet(form, key, default) == IF form[key] = None THEN default ELSE form[key]

\* request.user.is_superuser; requester 0 is the anonymous user
is_superuser(d, requester) ==
    \E u \in d.users : u.id = requester /\ u.is_superuser

\* user_data as the view builds it from the form
form_user_data(form, user_type) ==
    Let(Put(Put(Put(EmptyData, "username", form.username),
                "email", form.email),
            "password", form.password), LAMBDA base :
    CASE user_type = BUYER ->
            Put(Put(base, "preferred_shipping_method",
                    PostGet(form, "preferred_shipping_method", "standard")),
                "newsletter_subscription", form.newsletter_subscription = "on")
      [] user_type = SELLER ->
            Put(base, "business_type", PostGet(form, "business_type", "individual"))
      [] user_type = ADMIN ->
            Put(Put(Put(Put(Put(Put(Put(base,
                "admin_level", PostGet(form, "admin_level", "junior")),
                "can_manage_users", form.can_manage_users = "on"),
                "can_manage_products", FALSE),
                "can_manage_orders", FALSE),
                "can_manage_payments", FALSE),
                "can_view_analytics", FALSE),
                "can_manage_system", FALSE))

\* authenticate(request, username=email, password=password): the user whose
\* email (USERNAME_FIELD) it is, with the password it was just created
\* with; 0 is None
authenticate(d, email) ==
    IF \E u \in d.users : u.email = email
    THEN (CHOOSE u \in d.users : u.email = email).id
    ELSE 0

\* what the view answers: redirect or render, the url name or template, the
\* messages, and whether create_account was called and what it returned
Response(d, kind, target, msgs, reached, result) ==
    [db |-> d,
     ret |-> [Ret(kind, NoExc, result, "", <<>>) EXCEPT
                !.target = target, !.messages = msgs, !.reached = reached]]

\* the dashboard of each kind
Dashboard(user_type) ==
    CASE user_type = BUYER -> "users:buyer_dashboard"
      [] user_type = SELLER -> "users:seller_dashboard"
      [] user_type = ADMIN -> "admin:index"

\* the view after create_account returned or raised
post_after_create(out, user_type, user_data) ==
    IF out.ret.kind = "raise"
    THEN Response(out.db, "redirect", "users:register",
                  << IF out.ret.raised = "ValueError"
                     THEN "Invalid user type" ELSE "Registration failed" >>,
                  TRUE, NoResult)
    ELSE IF is_successful(out.ret.result)
    THEN IF authenticate(out.db, Get(user_data, "email", None)) # 0
         THEN Response(out.db, "redirect", Dashboard(user_type),
                       <<"account created successfully">>, TRUE, out.ret.result)
         ELSE Response(out.db, "redirect", "users:login",
                       <<"Account created but login failed. Please try logging in manually.">>,
                       TRUE, out.ret.result)
    ELSE Response(out.db, "render", "users/register.html",
                  out.ret.result.errors, TRUE, out.ret.result)

\* post without the superuser check of the admin branch
post_no_permission_check(fs, d, requester, form) ==
    Let(PostGet(form, "user_type", BUYER), LAMBDA user_type :
    IF user_type \notin UserTypes
    THEN Response(d, "redirect", "users:register", <<"Invalid user type">>,
                  FALSE, NoResult)
    ELSE Let(form_user_data(form, user_type), LAMBDA user_data :
         Let(create_account(fs, d, user_type, user_data, StoreUp), LAMBDA out :
             post_after_create(out, user_type, user_data))))

\* UserRegistrationView.post for request.user = requester and
\* request.POST = form, on store d
post(fs, d, requester, form) ==
    Let(PostGet(form, "user_type", BUYER), LAMBDA user_type :
    IF user_type \notin UserTypes
    THEN Response(d, "redirect", "users:register", <<"Invalid user type">>,
                  FALSE, NoResult)
    ELSE IF user_type = ADMIN /\ ~is_superuser(d, requester)
    THEN Response(d, "redirect", "users:register",
                  <<"You do not have permission to create admin accounts.">>,
                  FALSE, NoResult)
    ELSE Let(form_user_data(form, user_type), LAMBDA user_data :
         Let(create_account(fs, d, user_type, user_data, StoreUp), LAMBDA out :
             post_after_create(out, user_type, user_data))))

\* the forms posted
Forms ==
    { [NoForm EXCEPT !.user_type = ut, !.username = id[1], !.email = id[2],
                     !.password = id[3],
                     !.preferred_shipping_method = extra[1],
                     !.newsletter_subscription = extra[2],
                     !.business_type = extra[3],
                     !.admin_level = extra[4],
                     !.can_manage_users = extra[2]] :
        ut \in {None, BUYER, SELLER, ADMIN, "moderator"},
        id \in {<<"u1", "e1", "pw">>, <<"u2", "e2", "pw">>, <<"u2", "e2", None>>},
        extra \in {<<None, None, None, None>>,
                   <<"express", "on", "business", "senior">>} }

\* a POST of the registration form
Post(requester, form) ==
    /\ requester = 0 \/ \E u \in db.users : u.id = requester
    /\ call' = [Call("post", form.user_type, EmptyData, "") EXCEPT
                  !.user = requester, !.form = form]
    /\ \E out \in {post(factories, db, requester, form)} :
          /\ db' = out.db
          /\ ret' = out.ret
    /\ UNCHANGED <<factories, txn>>

NextView ==
    \/ \E requester \in 0..MaxUsers, form \in Forms : Post(requester, form)
    \/ \E extra_fields \in NewUserFlags : SaveNewUser("p1", "u0", "e0", extra_fields)
    \/ StepCall("p1")

\* the registration view, requested by users saved by the framework
SpecView == Init /\ [][NextView]_vars

-----------------------------------------------------------------------------
(* Payments: PaymentService over StripeProcessor and PayPalProcessor.  A   *)
(* float is finite with a whole value, finite and so large that a hundred  *)
(* times it is no float any more ("huge"), an infinity or NaN.             *)

Float(kind, value) == [kind |-> kind, value |-> value]

Amounts ==
    { Float("finite", v) : v \in {-1, 0, 1, 2, 20} }
       \cup { Float("huge", 0), Float("nan", 0), Float("inf", 0), Float("-inf", 0) }

PaymentTokens == {"", "tok_1", "tok_2", "tok_3", "tok_4", "tok_5"}

Processors == {"Stripe", "PayPal"}

\* amount * 100 in floating point
Times100(amount) ==
    CASE amount.kind = "finite" -> Float("finite", amount.value * 100)
      [] amount.kind = "huge" -> Float("inf", 0)
      [] OTHER -> amount

\* int(x): the exception it raises (NoExc: none) and the integer
ToInt(x) ==
    CASE x.kind = "finite" -> [raised |-> NoExc, value |-> x.value]
      [] x.kind = "nan" -> [raised |-> "ValueError", value |-> 0]
      [] OTHER -> [raised |-> "OverflowError", value |-> 0]

\* str(e) of the exception int() raised
IntErrorText(x) ==
    IF x.kind = "nan"
    THEN "cannot convert float NaN to integer"
    ELSE "cannot convert float infinity to integer"

\* the dataclass PaymentResult; error_message None by default
PaymentResult(success, transaction_id, amount, processor_name, error_message) ==
    [success |-> success, transaction_id |-> transaction_id, amount |-> amount,
     processor_name |-> processor_name, error_message |-> error_message]

\* StripeProcessor.process_payment
Stripe_process_payment(amount, payment_token) ==
    Let(ToInt(Times100(amount)), LAMBDA cents :
        IF cents.raised # NoExc
        THEN PaymentResult(FALSE, "", amount, "Stripe",
                           "Stripe error: " \o IntErrorText(Times100(amount)))
        ELSE PaymentResult("succeeded" = "succeeded", "ch_stripe_" \o payment_token,
                           amount, "Stripe", None))

\* PayPalProcessor.process_payment: str(amount) is defined for every float
PayPal_process_payment(amount, payment_token) ==
    PaymentResult("approved" = "approved", "PAY_paypal_" \o payment_token,
                  amount, "PayPal", None)

\* self.processor.process_payment(amount, payment_token)
process_payment(processor, amount, payment_token) ==
    CASE processor = "Stripe" -> Stripe_process_payment(amount, payment_token)
      [] processor = "PayPal" -> PayPal_process_payment(amount, payment_token)

\* PaymentService.charge_customer
charge_customer(service, amount, payment_token) ==
    process_payment(service.processor, amount, payment_token)

\* PaymentService(processor)
NewService(processor) ==
    /\ call' = [op |-> "PaymentService", service |-> [processor |-> processor],
                amount |-> Float("finite", 0), payment_token |-> ""]
    /\ ret' = [kind |-> "service", raised |-> NoExc,
               payment |-> PaymentResult(FALSE, "", Float("finite", 0), "", None)]
    /\ UNCHANGED <<db, factories, txn>>

\* service.charge_customer(amount, payment_token) on the service made last
ChargeCustomer(amount, payment_token) ==
    /\ call.op \in {"PaymentService", "charge_customer"}
    /\ call' = [call EXCEPT !.op = "charge_customer", !.amount = amount,
                            !.payment_token = payment_token]
    /\ ret' = [kind |-> "payment", raised |-> NoExc,
               payment |-> charge_customer(call.service, amount, payment_token)]
    /\ UNCHANGED <<db, factories, txn>>

NextPayments ==
    \/ \E processor \in Processors : NewService(processor)
    \/ \E amount \in Amounts, payment_token \in PaymentTokens :
          ChargeCustomer(amount, payment_token)

\* payment services and the charges made through them
SpecPayments == Init /\ [][NextPayments]_vars

-----------------------------------------------------------------------------
(* Concurrent calls of create_account.  Each caller runs the method one    *)
(* statement group at a time, in its own transaction on the shared store.  *)
(* An INSERT that collides on a unique column with a row of a transaction  *)
(* still open waits until that transaction ends.                           *)

\* the users whose rows were written by open transactions other than p's
OpenUsersOfOthers(p) ==
    { txn[q].t.user : q \in { r \in Procs \ {p} : txn[r].pc \notin {"idle", "done"} } }
       \ {0}

\* _create_base_user of p gets as far as the INSERT into users_user, which
\* has to wait
UserInsertWaits(p) ==
    /\ begin_create_base_user(txn[p].factory, NewRun(EmptyDb), txn[p].user_data).exc
          = NoExc
    /\ \E u \in db.users :
          /\ u.id \in OpenUsersOfOthers(p)
          /\ \/ u.username = Get(txn[p].user_data, "username", None)
             \/ u.email = Get(txn[p].user_data, "email", None)

\* p's INSERT into users_user_business_info has to wait
BusinessInfoInsertWaits(p) ==
    /\ RowsOf(db, "business_info", txn[p].t.user) = {}
    /\ \E r \in db.business_info :
          /\ r.user \in OpenUsersOfOthers(p)
          /\ r.referral_code = DefaultBusinessInfo(0).referral_code

\* the run of p, reading the shared store
View(p) == [txn[p].t EXCEPT !.db = db]

\* the statement groups of the try block, a group ending with each statement
\* that may wait: _create_base_user up to the INSERT, the four get_or_create
\* of create_user_related_models, save_user_related_models, the rest
Groups == <<"user", "profile", "preferences", "analytics", "business_info",
            "saves", "finish">>

\* the group that follows group pc; "exit" after the last
Following(pc) ==
    LET i == CHOOSE j \in DOMAIN Groups : Groups[j] = pc
    IN  IF i = Len(Groups) THEN "exit" ELSE Groups[i + 1]

\* the group p is at, run on the store as p sees it
Statement(p) ==
    CASE txn[p].pc = "user" ->
            begin_create_base_user(txn[p].factory, View(p), txn[p].user_data)
      [] txn[p].pc \in CompanionTables -> get_or_create(View(p), txn[p].pc)
      [] txn[p].pc = "saves" -> save_user_related_models(View(p))
      [] txn[p].pc = "finish" ->
            finish_account(txn[p].factory, View(p), txn[p].user_data)

\* the INSERT that ends the group p is at has to wait
Waits(p) ==
    \/ txn[p].pc = "user" /\ UserInsertWaits(p)
    \/ txn[p].pc = "business_info" /\ BusinessInfoInsertWaits(p)

\* p calls create_account(user_type, user_data): the factory is looked up
\* and transaction.atomic opens the transaction
StartCreateAccount(p, user_type, user_data) ==
    /\ txn[p].pc = "idle"
    /\ get_factory(factories, user_type).raised = NoExc
    /\ txn' = [txn EXCEPT ![p] =
                 [pc |-> "user", op |-> "create_account", cache |-> NoCache,
                  factory |-> get_factory(factories, user_type).factory,
                  user_data |-> user_data, t |-> Begin(EmptyDb, StoreUp),
                  result |-> NoResult]]
    /\ UNCHANGED <<db, factories, call, ret>>

\* p runs its next group: the store is the one the group left, the run
\* keeps its own fields; an exception takes p to the except clause
Step(p) ==
    /\ \E i \in DOMAIN Groups : Groups[i] = txn[p].pc
    /\ ~Waits(p)
    /\ \E t1 \in {Statement(p)} :
          /\ db' = t1.db
          /\ txn' = [txn EXCEPT ![p].t = [t1 EXCEPT !.db = EmptyDb],
                                ![p].pc = IF t1.exc # NoExc THEN "exit"
                                          ELSE Following(txn[p].pc)]
    /\ UNCHANGED <<factories, call, ret>>

\* the method returns and transaction.atomic commits or rolls back
StepExit(p) ==
    /\ txn[p].pc = "exit"
    /\ \E end \in {end_of_try(txn[p].factory, txn[p].t)} :
          /\ db' = atomic_exit(View(p), end.raised, StoreUp).db
          /\ txn' = [txn EXCEPT ![p].pc = "done", ![p].result = end.result]
    /\ UNCHANGED <<factories, call, ret>>

NextRace ==
    \/ \E p \in Procs, user_type \in {BUYER, SELLER, ADMIN}, user_data \in ValidData :
          StartCreateAccount(p, user_type, user_data)
    \/ \E p \in Procs : Step(p)
    \/ \E p \in Procs : StepExit(p)

\* two callers, each making one call
SpecRace == Init /\ [][NextRace]_vars

-----------------------------------------------------------------------------
(* What the claims speak of *)

\* the call just made is create_account, dispatched to a built-in factory
CreateCall == call.op = "create_account" /\ Bound(factories, call.user_type)

\* the required fields of the call just made
CallUsername == Get(call.user_data, "username", None)
CallEmail == Get(call.user_data, "email", None)
CallPassword == Get(call.user_data, "password", None)

RequiredPresent == Truthy(CallUsername) /\ Truthy(CallEmail) /\ Truthy(CallPassword)

\* the keys whose values are strings (or None)
StringKeys ==
    RequiredKeys \cup {"theme", "preferred_shipping_method", "business_type",
                       "commission_rate", "admin_level"}

\* no key of the bag holds None
NoNoneValue ==
    \A k \in call.user_data.keys \cap StringKeys : call.user_data.val[k] # None

\* the call returned a failed result
Failed == ret.kind = "result" /\ ~is_successful(ret.result)
\* the call returned a successful result
Succeeded == ret.kind = "result" /\ is_successful(ret.result)

\* the table of the kind-specific profile of each kind
KindTable(user_type) ==
    CASE user_type = BUYER -> "buyer_profile"
      [] user_type = SELLER -> "seller_profile"
      [] user_type = ADMIN -> "admin_profile"

\* user id has one row in each companion table and one kind-specific row,
\* in the table of kind user_type
Complete(d, id, user_type) ==
    /\ \A table \in CompanionTables : Cardinality(RowsOf(d, table, id)) = 1
    /\ \A table \in KindTables :
          Cardinality(RowsOf(d, table, id)) =
             IF table = KindTable(user_type) THEN 1 ELSE 0

\* C3: create_account of a supported kind with non-empty username, email
\* and password that collide with no stored user succeeds, and the store
\* gains exactly one user, with its companions and its kind-specific profile.
C3_ValidCallCreatesAccount ==
    [][(/\ CreateCall' /\ RequiredPresent' /\ NoNoneValue'
        /\ \A u \in db.users : u.username # CallUsername' /\ u.email # CallEmail')
       => /\ Succeeded'
          /\ \E u \in db'.users :
                /\ db'.users = db.users \cup {u}
                /\ u \notin db.users
                /\ u.id = ret'.result.user
                /\ u.username = CallUsername' /\ u.email = CallEmail'
                /\ Complete(db', u.id, call'.user_type)]_vars

\* C4: create_account with username, email or password absent or empty
\* returns a failed result (it does not raise) with user None and a
\* non-empty error list, and writes nothing.
C4_MissingFieldFailsCleanly ==
    [][(CreateCall' /\ ~RequiredPresent')
       => /\ Failed'
          /\ ret'.result.user = 0
          /\ ret'.result.errors # <<>>
          /\ db' = db]_vars

\* C4 witness: a call without a password came back as a failed result
C4_Witness ==
    /\ CreateCall /\ Failed
    /\ "password" \notin call.user_data.keys
    /\ Truthy(CallUsername) /\ Truthy(CallEmail)
    /\ ret.result.errors = << <<FailureLabel(Lookup(factories, call.user_type)),
                               "ValueError">> >>

\* C5: a create_account whose required fields are present and whose
\* username and email are those of no stored user succeeds, whatever
\* accounts exist already, also when the bag has no optional key.
C5_DistinctIdentitiesSucceed ==
    [][(/\ CreateCall' /\ RequiredPresent'
        /\ call'.user_data.keys = RequiredKeys
        /\ \A u \in db.users : u.username # CallUsername' /\ u.email # CallEmail')
       => Succeeded']_vars

\* C8: create_account raises exactly when the kind has no factory; for a
\* registered kind it returns a result and raises nothing, whatever the bag
\* holds and whether or not the store can be reached.
C8_RaisesOnlyForUnknownKind ==
    call.op = "create_account" =>
        IF \E i \in DOMAIN factories : factories[i].tag = call.user_type
        THEN ret.kind = "result" /\ ret.raised = NoExc
        ELSE ret.kind = "raise" /\ ret.raised = "ValueError"

\* C9: get_factory of a kind without a binding raises ValueError and returns
\* no factory; a factory it returns is the one bound to exactly that tag.
C9_UnboundKindRaises ==
    call.op = "get_factory" =>
        /\ (\A i \in DOMAIN factories : factories[i].tag # call.user_type)
              => ret.kind = "raise" /\ ret.raised = "ValueError" /\ ret.factory = ""
        /\ ret.kind = "factory"
              => \E i \in DOMAIN factories :
                    factories[i].tag = call.user_type /\ factories[i].cls = ret.factory

\* C9 witness: get_factory("BUYER") raised although "buyer" is bound
C9_Witness ==
    /\ call.op = "get_factory" /\ call.user_type = "BUYER"
    /\ ret.kind = "raise" /\ ret.raised = "ValueError"
    /\ \E i \in DOMAIN factories : factories[i].tag = BUYER
    /\ \E i \in DOMAIN factories : factories[i].tag = "moderator"

\* C10: after register_factory(kind, F), get_factory(kind) returns an
\* instance of F, whether or not the kind was bound before: the binding is
\* that of the last call.
C10_LastRegistrationWins ==
    call.op = "register_factory" =>
        /\ get_factory(factories, call.user_type) =
              [raised |-> NoExc, factory |-> call.factory_class]
        /\ Cardinality({i \in DOMAIN factories : factories[i].tag = call.user_type}) = 1

\* C10 witness: register_factory rebound a built-in kind to another class,
\* after a kind that was not bound had been registered
C10_Witness ==
    /\ call.op = "register_factory"
    /\ call.user_type = BUYER /\ call.factory_class = "SellerAccountFactory"
    /\ \E i \in DOMAIN factories : factories[i].tag = "moderator"

\* C7: two concurrent create_account calls with the same email end with
\* exactly one successful result, one failed result that carries the store's
\* constraint violation, and exactly one user with that email.
C7_SameEmailRace ==
    (/\ \A p \in Procs : txn[p].pc = "done"
     /\ \A p, q \in Procs :
           Get(txn[p].user_data, "email", None) = Get(txn[q].user_data, "email", None))
    => \E p \in Procs :
          /\ is_successful(txn[p].result)
          /\ \A q \in Procs \ {p} :
                /\ ~is_successful(txn[q].result)
                /\ txn[q].result.errors # <<>>
                /\ txn[q].result.errors[1][2] = "IntegrityError"
          /\ Cardinality({u \in db.users :
                            u.email = Get(txn[p].user_data, "email", None)}) = 1

\* C11: register_factory(kind, F) changes the binding of no other kind:
\* for every other kind, get_factory gives the same class (or raises as
\* before) and create_account gives the same outcome on the same store.
C11_RegisterLeavesOthers ==
    [][call'.op = "register_factory"
       => \A k \in Tags \ {call'.user_type} :
             /\ get_factory(factories', k) = get_factory(factories, k)
             /\ \A user_data \in ExtendData :
                   \A store \in StoreStates :
                      create_account(factories', db, k, user_data, store) =
                         create_account(factories, db, k, user_data, store)]_vars

\* C11 witness: a built-in kind was rebound while a kind added before was
\* registered
C11_Witness ==
    /\ call.op = "register_factory"
    /\ call.user_type = SELLER /\ call.factory_class = "AdminAccountFactory"
    /\ Bound(factories, "moderator")
    /\ Lookup(factories, BUYER) = "BuyerAccountFactory"

\* C12: get_supported_user_types returns exactly the kinds that have a
\* binding, each once; every kind has at most one factory; at the start the
\* kinds are BUYER, SELLER and ADMIN, bound to the three built-in factories.
C12_SupportedTypesAreBindings ==
    /\ \A k \in Tags :
          Cardinality({i \in DOMAIN factories : factories[i].tag = k}) <= 1
    /\ call.op = "get_supported_user_types" =>
          /\ {ret.types[i] : i \in DOMAIN ret.types} =
                {k \in Tags : get_factory(factories, k).raised = NoExc}
          /\ \A i, j \in DOMAIN ret.types : ret.types[i] = ret.types[j] => i = j
    /\ call.op = "none" =>
          /\ get_supported_user_types(factories) = <<BUYER, SELLER, ADMIN>>
          /\ get_factory(factories, BUYER).factory = "BuyerAccountFactory"
          /\ get_factory(factories, SELLER).factory = "SellerAccountFactory"
          /\ get_factory(factories, ADMIN).factory = "AdminAccountFactory"

\* C12 witness: the kinds were listed after two kinds were added and a
\* built-in one was rebound
C12_Witness ==
    /\ call.op = "get_supported_user_types"
    /\ Len(ret.types) = 5
    /\ Lookup(factories, BUYER) # "BuyerAccountFactory"

\* ret holds a result object made by the constructor and add_error
ResultCall == call.op \in {"AccountCreationResult", "add_error"}

\* C13: is_successful is true if and only if the error list is empty and the
\* result holds a user.
C13_SuccessfulIffUserAndNoErrors ==
    ResultCall =>
        (is_successful(ret.result) <=>
            (ret.result.errors = <<>> /\ ret.result.user # 0))

\* C13, amended: is_successful is true if and only if the error list is
\* empty, whether or not the result holds a user.
C13_SuccessfulIffNoErrors ==
    ResultCall => (is_successful(ret.result) <=> ret.result.errors = <<>>)

\* C13 witness: a result constructed with user None and given no error
C13_Witness ==
    /\ call.op = "AccountCreationResult"
    /\ ret.result.user = 0 /\ ret.result.errors = <<>>
    /\ is_successful(ret.result)

\* C14: add_error appends its message at the end of the error list and
\* clears the success flag in the same step; the success flag is true exactly
\* when the error list is empty; after an add_error is_successful is false.
C14_AddErrorClearsSuccess ==
    /\ [](ResultCall => (ret.result.success <=> ret.result.errors = <<>>))
    /\ [][call'.op = "add_error"
            => /\ ret'.result.errors = Append(ret.result.errors, call'.error)
               /\ ~ret'.result.success
               /\ ~is_successful(ret'.result)
               /\ ret'.result.user = ret.result.user
               /\ ret'.result.objects = ret.result.objects]_vars

\* C14 witness: a second error was added to a result that holds a user
C14_Witness ==
    /\ call.op = "add_error"
    /\ Len(ret.result.errors) = 2
    /\ ret.result.errors[2] = call.error /\ ret.result.errors[1] # call.error
    /\ ret.result.user # 0

\* C15: a result returned by a built-in factory is either a success (user
\* present, no error, profile mapping populated) or a failure (user None,
\* one or more error messages), never a mix of the two.
C15_ResultShapes ==
    (CreateCall /\ ret.kind = "result") =>
        \/ /\ is_successful(ret.result)
           /\ ret.result.user # 0
           /\ ret.result.errors = <<>>
           /\ {"user_profile", "user_preferences", "user_analytics",
               "user_business_info",
               ProfileKey(Lookup(factories, call.user_type))}
                 \subseteq DOMAIN ret.result.objects
           /\ \A k \in DOMAIN ret.result.objects :
                 ret.result.objects[k] = ret.result.user
        \/ /\ ~is_successful(ret.result)
           /\ ret.result.user = 0
           /\ ret.result.objects = NoObjects /\ ret.result.flags = NoFlags
           /\ Len(ret.result.errors) >= 1
           /\ \A i \in DOMAIN ret.result.errors :
                 /\ ret.result.errors[i][1] = FailureLabel(Lookup(factories, call.user_type))
                 /\ ret.result.errors[i][2] # NoExc

\* C15 witness: a call with every required field returned the failed shape,
\* with one error that names the factory and the exception
C15_Witness ==
    /\ CreateCall /\ RequiredPresent
    /\ ret.kind = "result" /\ ret.result.user = 0
    /\ ret.result.objects = NoObjects
    /\ ret.result.errors = << <<FailureLabel(Lookup(factories, call.user_type)),
                               "TypeError">> >>

\* the kinds the module binds at import
BuiltinKinds == {BUYER, SELLER, ADMIN}

\* the user a successful create_account(K, ...) returned is stored with the
\* kind tag K
CreatedKindIs(K) ==
    (call.op = "create_account" /\ call.user_type = K /\ Succeeded) =>
        \E u \in db.users :
           u.id = ret.result.user /\ "user_type" \in DOMAIN u /\ u["user_type"] = K

\* C16: for every built-in kind K, get_factory(K) returns a factory whose
\* get_user_type() is K, and a successful create_account(K, fields) yields a
\* user whose kind tag is K.
C16_KindTagMatches ==
    \A K \in BuiltinKinds :
       /\ get_factory(factories, K).raised = NoExc
       /\ get_user_type(get_factory(factories, K).factory) = K
       /\ CreatedKindIs(K)

\* the stored rows of the user the call returned
ResultPreferences == CHOOSE r \in db.preferences : r.user = ret.result.user
ResultBusinessInfo == CHOOSE r \in db.business_info : r.user = ret.result.user
ResultProfile(table) == CHOOSE r \in db[table] : r.user = ret.result.user

\* the stored rows of the user the method was called on
CallPreferences == CHOOSE r \in db.preferences : r.user = call.user
CallBusinessInfo == CHOOSE r \in db.business_info : r.user = call.user
CallProfile(table) == CHOOSE r \in db[table] : r.user = call.user

\* the call just made created an account of kind K
Created(K) == CreateCall /\ call.user_type = K /\ Succeeded

\* the call just made was the method op of factory_class on a stored user,
\* and it returned
Returned(op, factory_class) ==
    /\ call.op = op /\ call.factory_class = factory_class
    /\ ret.kind \notin {"raise", "running"}

\* the settings method of factory_class, called on a stored user, has just
\* returned: its last statement, the save of business_info, ran last
Configured(factory_class) ==
    Returned("configure_type_specific_settings", factory_class)

\* the settings method of factory_class, called on a stored user, has just
\* run its preferences.save()
SavedPreferences(factory_class) ==
    /\ call.op = "configure_type_specific_settings"
    /\ call.factory_class = factory_class
    /\ ret.statement = "save_preferences"
    /\ ret.kind = "running"

\* the value of the bag's key, the documented default without the key
Supplied(key, default) == Get(call.user_data, key, default)

\* what the claim says of the preferences a seller ends with
SellerPreferences(preferences) ==
    /\ "marketing_emails" \notin call.user_data.keys
          => preferences.marketing_emails = FALSE
    /\ "newsletter_subscription" \notin call.user_data.keys
          => preferences.newsletter_subscription = FALSE

\* what the claim says of the business status and the markers a seller
\* ends with
SellerBusinessInfo(business_info, flags) ==
    /\ business_info.account_status = "pending"
    /\ "verification_required" \in DOMAIN flags
    /\ flags["verification_required"] = TRUE

BuyerKeepsDefault(preferences) ==
    preferences.marketing_emails =
       DefaultPreferences(preferences.user).marketing_emails

BuyerMarketingFromBag(preferences) ==
    preferences.marketing_emails =
       Supplied("marketing_emails",
                DefaultPreferences(preferences.user).marketing_emails)

BuyerProfileFields(p) ==
    p.preferred_shipping_method = Supplied("preferred_shipping_method", "standard")
SellerProfileFields(p) ==
    p.commission_rate = Supplied("commission_rate", "5.0")
AdminProfileFields(p) ==
    /\ p.require_2fa = Supplied("require_2fa", TRUE)
    /\ p.session_timeout_minutes = Supplied("session_timeout_minutes", 30)
    /\ p.admin_level = Supplied("admin_level", "junior")
    /\ p.can_manage_users = Supplied("can_manage_users", FALSE)
    /\ p.can_manage_products = Supplied("can_manage_products", FALSE)
    /\ p.can_manage_orders = Supplied("can_manage_orders", FALSE)
    /\ p.can_manage_payments = Supplied("can_manage_payments", FALSE)
    /\ p.can_view_analytics = Supplied("can_view_analytics", FALSE)
    /\ p.can_manage_system = Supplied("can_manage_system", FALSE)

\* the profile step of factory_class was just applied to a stored user
ProfileMade(factory_class) == Returned("create_type_specific_profile", factory_class)

\* C20: each field of a kind-specific profile, made by a successful creation
\* or by the factory's profile step, holds the value of the bag's key when the
\* key is present and the documented default otherwise: buyer
\* preferred_shipping_method 'standard', seller commission_rate 5.0, admin
\* require_2fa true, session_timeout_minutes 30, permission flags false,
\* admin_level 'junior'.
C20_ProfileFieldDefaults ==
    /\ Created(BUYER) => BuyerProfileFields(ResultProfile("buyer_profile"))
    /\ Created(SELLER) => SellerProfileFields(ResultProfile("seller_profile"))
    /\ Created(ADMIN) => AdminProfileFields(ResultProfile("admin_profile"))
    /\ ProfileMade("BuyerAccountFactory") =>
          BuyerProfileFields(CallProfile("buyer_profile"))
    /\ ProfileMade("SellerAccountFactory") =>
          SellerProfileFields(CallProfile("seller_profile"))
    /\ ProfileMade("AdminAccountFactory") =>
          AdminProfileFields(CallProfile("admin_profile"))

\* C20 witness: a buyer profile made with its own shipping method, and an
\* admin profile of another user whose fields took their defaults
C20_Witness ==
    /\ ProfileMade("BuyerAccountFactory")
    /\ "preferred_shipping_method" \in call.user_data.keys
    /\ CallProfile("buyer_profile").preferred_shipping_method = "express"
    /\ \E r \in db.admin_profile :
          r.user # call.user /\ r.admin_level = "junior" /\ r.require_2fa = TRUE

\* C22: every call of the bundler on a stored user returns the four
\* companion records of that user; a call that follows another on the same
\* user, also with saves of the user in between, returns the same records;
\* and the user never has a second row in a companion table.
C22_BundlingIdempotent ==
    [][(call' # call /\ call'.op = "setup_base_profiles")
       => /\ ret'.kind = "profile_data"
          /\ DOMAIN ret'.result.objects =
                {"user_profile", "user_preferences", "user_analytics",
                 "user_business_info"}
          /\ (call.op = "setup_base_profiles" /\ call.user = call'.user)
                => ret'.result.objects = ret.result.objects
          /\ \A table \in CompanionTables :
                Cardinality(RowsOf(db', table, call'.user)) = 1]_vars

\* C23: the bundler, given a stored user, returns handles to all four
\* companions, creating each one that is missing, and does not fail.
C23_BundlerCreatesMissing ==
    call.op = "setup_base_profiles" =>
        /\ ret.kind = "profile_data"
        /\ DOMAIN ret.result.objects =
              {"user_profile", "user_preferences", "user_analytics",
               "user_business_info"}
        /\ \A table \in CompanionTables :
              Cardinality(RowsOf(db, table, call.user)) = 1

\* what the claim says of the preferences an admin ends with
AdminPreferences(preferences) ==
    /\ preferences.marketing_emails = FALSE
    /\ preferences.newsletter_subscription = FALSE
    /\ preferences.push_notifications = Supplied("push_notifications", TRUE)
    /\ preferences.theme = Supplied("theme", "dark")

C27_BindingsConsistent ==
    \A k \in {BUYER} \cup ExtendTags :
       /\ Bound(factories, k) => get_user_type(Lookup(factories, k)) = k
       /\ CreatedKindIs(k)

\* the kinds bound in a registry
BoundTags(fs) == { fs[i].tag : i \in DOMAIN fs }

\* C28: get_factory (returning or raising), get_supported_user_types and
\* create_account leave the registry's bindings as they are; register_factory
\* changes the binding of the kind it is given and no other.
C28_RegistryFrame ==
    [][/\ call'.op \in {"get_factory", "get_supported_user_types", "create_account"}
          => factories' = factories
       /\ factories' # factories => call'.op = "register_factory"
       /\ call'.op = "register_factory" =>
             /\ BoundTags(factories') = BoundTags(factories) \cup {call'.user_type}
             /\ Lookup(factories', call'.user_type) = call'.factory_class
             /\ \A i \in DOMAIN factories :
                   factories[i].tag # call'.user_type => factories'[i] = factories[i]
             /\ Len(factories') = Cardinality(BoundTags(factories'))]_vars

\* C28 witness: get_factory has just raised for a kind that is not bound, in
\* a registry where register_factory had rebound SELLER, and the rebinding
\* and the built-in bindings are still there
C28_Witness ==
    /\ call.op = "get_factory"
    /\ ret.kind = "raise"
    /\ ~Bound(factories, call.user_type)
    /\ Lookup(factories, SELLER) # "SellerAccountFactory"
    /\ Lookup(factories, BUYER) = "BuyerAccountFactory"
    /\ Len(factories) = 3

\* C29: a POST of the registration view with user_type admin from a
\* requester who is not a superuser does not reach create_account and creates
\* no account: the view reports the permission error and redirects; an admin
\* POST reaches create_account, and changes the store, only for a superuser
\* requester.
C29_AdminNeedsSuperuser ==
    [][call'.op = "post" =>
         /\ (call'.form.user_type = ADMIN /\ ~is_superuser(db, call'.user)) =>
               /\ db' = db
               /\ ~ret'.reached
               /\ ret'.kind = "redirect"
               /\ ret'.target = "users:register"
               /\ ret'.messages =
                     <<"You do not have permission to create admin accounts.">>
         /\ (call'.form.user_type = ADMIN /\ (ret'.reached \/ db' # db))
               => is_superuser(db, call'.user)]_vars

\* C29 witness: a logged-in user who is not a superuser posted an admin
\* form with every field filled in and was sent back with the permission
\* error
C29_Witness ==
    /\ call.op = "post"
    /\ call.form.user_type = ADMIN
    /\ call.form.password = "pw"
    /\ call.form.admin_level = "senior"
    /\ \E u \in db.users : u.id = call.user /\ ~u.is_superuser
    /\ ~ret.reached
    /\ ret.messages = <<"You do not have permission to create admin accounts.">>

\* the id the processor gives the charge of a token
TransactionPrefix(processor) ==
    CASE processor = "Stripe" -> "ch_stripe_"
      [] processor = "PayPal" -> "PAY_paypal_"

\* C30: charge_customer behaves the same with every processor: for any
\* amount and token it returns, without raising, a PaymentResult whose
\* success is true, whose amount is the input amount, whose processor_name
\* names the processor used and whose transaction_id is non-empty and derived
\* from the token; Stripe and PayPal agree on success, amount and
\* error_message.
C30_ProcessorsEquivalent ==
    call.op = "charge_customer" =>
        /\ ret.kind = "payment"
        /\ ret.raised = NoExc
        /\ ret.payment.success = TRUE
        /\ ret.payment.amount = call.amount
        /\ ret.payment.processor_name = call.service.processor
        /\ ret.payment.transaction_id # ""
        /\ ret.payment.transaction_id =
              TransactionPrefix(call.service.processor) \o call.payment_token
        /\ \A processor \in Processors :
              \E other \in {process_payment(processor, call.amount, call.payment_token)} :
                 /\ other.success = ret.payment.success
                 /\ other.amount = ret.payment.amount
                 /\ other.error_message = ret.payment.error_message

====
